---- MODULE Spec2Model ----
(***************************************************************************)
(* A model of the workspace exploration tools of codeclaw:                 *)
(*   src/src/agents/tools/search-tools.ts  (list_files, search)            *)
(*   src/unnamed/part_003                  (pruneMapToMaxSize)             *)
(*                                                                         *)
(* Strings that the code inspects character by character (paths, glob      *)
(* patterns, regular expressions, argument vectors) are sequences of       *)
(* one-character strings: "a/b" is <<"a", "/", "b">>.                       *)
(***************************************************************************)
EXTENDS Integers, Sequences, FiniteSets, TLC

VARIABLES
    root,      \* the workspace root the tools were constructed with
    fs,        \* the filesystem: a set of nodes [path |-> segments, kind |-> "dir" | "file"]
    call,      \* the tool invocation in flight, or the last one completed
    limIn,     \* the input handed to the output limiter on its own
    limOut,    \* what the output limiter returned for limIn
    last,      \* the list_files invocation that settled before the one in flight
    calls,     \* the list_files invocations running side by side, one per slot
    order,     \* the slots in the order in which their I/O was answered
    map,       \* a Map: its entries [key, value] in insertion order
    pruned,    \* the call of pruneMapToMaxSize that has just returned
    glob       \* a glob pattern, the path it is tried on, and what matchesPattern said

limVars == <<limIn, limOut>>

concVars == <<calls, order>>

mapVars == <<map, pruned>>

vars == <<root, fs, call, limVars, last, concVars, mapVars, glob>>

-----------------------------------------------------------------------------
(* String primitives of the JavaScript runtime                             *)

StartsWith(s, p) == Len(p) <= Len(s) /\ SubSeq(s, 1, Len(p)) = p

EndsWith(s, p) == Len(p) <= Len(s) /\ SubSeq(s, Len(s) - Len(p) + 1, Len(s)) = p

Includes(s, p) == \E i \in 1..(Len(s) - Len(p) + 1) : SubSeq(s, i, i + Len(p) - 1) = p

RECURSIVE SplitFrom(_, _, _, _)
SplitFrom(s, sep, cur, acc) ==
    IF s = <<>> THEN Append(acc, cur)
    ELSE IF Head(s) = sep THEN SplitFrom(Tail(s), sep, <<>>, Append(acc, cur))
    ELSE SplitFrom(Tail(s), sep, Append(cur, Head(s)), acc)

\* String.prototype.split with a one-character separator
Split(s, sep) == SplitFrom(s, sep, <<>>, <<>>)

RECURSIVE Join(_, _)
\* Array.prototype.join
Join(parts, sep) ==
    IF parts = <<>> THEN <<>>
    ELSE IF Len(parts) = 1 THEN parts[1]
    ELSE parts[1] \o sep \o Join(Tail(parts), sep)

RECURSIVE ReplaceAll(_, _, _)
\* String.prototype.replace with a global regex that matches the literal `from`:
\* a left-to-right scan over non-overlapping occurrences
ReplaceAll(s, from, to) ==
    IF s = <<>> THEN <<>>
    ELSE IF StartsWith(s, from) THEN to \o ReplaceAll(SubSeq(s, Len(from) + 1, Len(s)), from, to)
    ELSE <<Head(s)>> \o ReplaceAll(Tail(s), from, to)

\* UTF-16 code units of the characters the model uses (the order of Array.prototype.sort)
CharCode ==
    "\n" :> 10 @@ "$" :> 36 @@ "*" :> 42 @@ "+" :> 43 @@ "-" :> 45 @@ "." :> 46 @@ "/" :> 47
    @@ "0" :> 48 @@ "1" :> 49 @@ "2" :> 50 @@ "3" :> 51 @@ "4" :> 52
    @@ "5" :> 53 @@ "6" :> 54 @@ "7" :> 55 @@ "8" :> 56 @@ "9" :> 57
    @@ ":" :> 58 @@ "?" :> 63 @@ "[" :> 91 @@ "\\" :> 92 @@ "]" :> 93 @@ "^" :> 94
    @@ "a" :> 97 @@ "b" :> 98 @@ "c" :> 99 @@ "d" :> 100 @@ "e" :> 101 @@ "f" :> 102
    @@ "g" :> 103 @@ "h" :> 104 @@ "i" :> 105 @@ "l" :> 108 @@ "m" :> 109 @@ "n" :> 110
    @@ "o" :> 111 @@ "p" :> 112 @@ "q" :> 113 @@ "r" :> 114 @@ "s" :> 115 @@ "t" :> 116
    @@ "u" :> 117 @@ "v" :> 118 @@ "w" :> 119 @@ "x" :> 120 @@ "y" :> 121 @@ "z" :> 122

RECURSIVE StrLess(_, _)
\* a < b for two strings, by code units
StrLess(a, b) ==
    IF b = <<>> THEN FALSE
    ELSE IF a = <<>> THEN TRUE
    ELSE IF Head(a) = Head(b) THEN StrLess(Tail(a), Tail(b))
    ELSE CharCode[Head(a)] < CharCode[Head(b)]

-----------------------------------------------------------------------------
(* node:path, posix flavour                                                *)

RECURSIVE NormalizeSegs(_, _, _)
\* normalizeString: "" and "." segments vanish, ".." removes the segment before
\* it; above the top, ".." is kept for a relative path and dropped for an absolute one
NormalizeSegs(segs, allowAboveRoot, acc) ==
    IF segs = <<>> THEN acc
    ELSE LET seg == Head(segs)
             rest == Tail(segs)
         IN  IF seg = <<>> \/ seg = <<".">> THEN NormalizeSegs(rest, allowAboveRoot, acc)
             ELSE IF seg = <<".", ".">>
                  THEN IF acc # <<>> /\ acc[Len(acc)] # <<".", ".">>
                       THEN NormalizeSegs(rest, allowAboveRoot, SubSeq(acc, 1, Len(acc) - 1))
                       ELSE IF allowAboveRoot
                            THEN NormalizeSegs(rest, allowAboveRoot, Append(acc, seg))
                            ELSE NormalizeSegs(rest, allowAboveRoot, acc)
             ELSE NormalizeSegs(rest, allowAboveRoot, Append(acc, seg))

IsAbsolute(p) == p # <<>> /\ p[1] = "/"

\* path.normalize
PathNormalize(p) ==
    IF p = <<>> THEN <<".">>
    ELSE LET isAbsolute == IsAbsolute(p)
             trailingSeparator == p[Len(p)] = "/"
             body == Join(NormalizeSegs(Split(p, "/"), ~isAbsolute, <<>>), <<"/">>)
         IN  IF body = <<>>
             THEN IF isAbsolute THEN <<"/">>
                  ELSE IF trailingSeparator THEN <<".", "/">> ELSE <<".">>
             ELSE (IF isAbsolute THEN <<"/">> ELSE <<>>) \o body
                  \o (IF trailingSeparator THEN <<"/">> ELSE <<>>)

\* path.join of two arguments: empty arguments are skipped
PathJoin(a, b) ==
    IF a = <<>> /\ b = <<>> THEN <<".">>
    ELSE IF a = <<>> THEN PathNormalize(b)
    ELSE IF b = <<>> THEN PathNormalize(a)
    ELSE PathNormalize(a \o <<"/">> \o b)

\* path.resolve(from, to) with an absolute `from`: an absolute `to` wins, the
\* result is normalized and carries no trailing separator
PathResolve(from, to) ==
    LET full == IF IsAbsolute(to) THEN to ELSE from \o <<"/">> \o to
    IN  <<"/">> \o Join(NormalizeSegs(Split(full, "/"), FALSE, <<>>), <<"/">>)

-----------------------------------------------------------------------------
(* The regular expressions that matchesPattern builds                      *)

\* the characters `.` does not match
LineTerminators == {"\n", "\r"}

RECURSIVE RegexAtoms(_)
\* The atoms of a regular expression source, left to right: an escaped character,
\* the class [^/], `.`, the anchors, a literal; each with whether `*` follows it
RegexAtoms(r) ==
    IF r = <<>> THEN <<>>
    ELSE LET one ==
                 IF r[1] = "\\" /\ Len(r) >= 2 THEN [kind |-> "lit", ch |-> r[2], len |-> 2]
                 ELSE IF StartsWith(r, <<"[", "^", "/", "]">>) THEN [kind |-> "notslash", ch |-> "", len |-> 4]
                 ELSE IF r[1] = "." THEN [kind |-> "any", ch |-> "", len |-> 1]
                 ELSE IF r[1] = "^" THEN [kind |-> "bol", ch |-> "", len |-> 1]
                 ELSE IF r[1] = "$" THEN [kind |-> "eol", ch |-> "", len |-> 1]
                 ELSE [kind |-> "lit", ch |-> r[1], len |-> 1]
             star == Len(r) > one.len /\ r[one.len + 1] = "*"
             used == one.len + (IF star THEN 1 ELSE 0)
         IN  <<[kind |-> one.kind, ch |-> one.ch, star |-> star]>>
             \o RegexAtoms(SubSeq(r, used + 1, Len(r)))

AtomMatches(atom, c) ==
    CASE atom.kind = "lit" -> c = atom.ch
      [] atom.kind = "any" -> c \notin LineTerminators
      [] atom.kind = "notslash" -> c # "/"
      [] OTHER -> FALSE

RECURSIVE MatchHere(_, _, _)
\* whether the atoms match a prefix of s that starts at position i (backtracking)
MatchHere(atoms, s, i) ==
    IF atoms = <<>> THEN TRUE
    ELSE LET atom == Head(atoms)
             rest == Tail(atoms)
         IN  IF atom.kind = "bol" THEN i = 1 /\ MatchHere(rest, s, i)
             ELSE IF atom.kind = "eol" THEN i = Len(s) + 1 /\ MatchHere(rest, s, i)
             ELSE IF atom.star
                  THEN \/ MatchHere(rest, s, i)
                       \/ /\ i <= Len(s)
                          /\ AtomMatches(atom, s[i])
                          /\ MatchHere(atoms, s, i + 1)
                  ELSE /\ i <= Len(s)
                       /\ AtomMatches(atom, s[i])
                       /\ MatchHere(rest, s, i + 1)

\* new RegExp(source).test(s): a match starting anywhere
RegExpTest(source, s) ==
    LET atoms == RegexAtoms(source)
    IN  \E i \in 1..(Len(s) + 1) : MatchHere(atoms, s, i)

-----------------------------------------------------------------------------
(* matchesPattern                                                          *)

\* the characters of the class [.+^${}()|[\]\\]
RegexChars == {".", "+", "^", "$", "{", "}", "(", ")", "|", "[", "]", "\\"}

RECURSIVE EscapeRegexChars(_)
\* .replace(/[.+^${}()|[\]\\]/g, "\\$&")
EscapeRegexChars(s) ==
    IF s = <<>> THEN <<>>
    ELSE (IF Head(s) \in RegexChars THEN <<"\\", Head(s)>> ELSE <<Head(s)>>)
         \o EscapeRegexChars(Tail(s))

\* the four replacements, each applied to the result of the one before it
GlobToRegex(pattern) ==
    LET escaped == EscapeRegexChars(pattern)
        doubled == ReplaceAll(escaped, <<"*", "*">>, <<".", "*">>)
        starred == ReplaceAll(doubled, <<"*">>, <<"[", "^", "/", "]", "*">>)
    IN  ReplaceAll(starred, <<"?">>, <<".">>)

\* the regular expression source compiled for one pattern
regexString(pattern) ==
    IF EndsWith(pattern, <<"/">>)
    THEN <<"^">> \o GlobToRegex(pattern) \o <<".", "*">>
    ELSE <<"^">> \o GlobToRegex(pattern) \o <<"$">>

hasSlash(pattern) == Includes(pattern, <<"/">>) /\ ~EndsWith(pattern, <<"/">>)

\* PatternMatches with the full relative path as the match target of every pattern
PatternMatchesFullPath(pattern, normalizedPath, basename) ==
    RegExpTest(regexString(pattern), normalizedPath)

\* one pattern of the list against one entry
PatternMatches(pattern, normalizedPath, basename) ==
    LET matchTarget == IF hasSlash(pattern) THEN normalizedPath ELSE basename
    IN  RegExpTest(regexString(pattern), matchTarget)

MatchesPattern(filePath, basename, patterns) ==
    IF patterns = <<>> THEN FALSE
    ELSE LET normalizedPath == Join(Split(filePath, "/"), <<"/">>)
         IN  \E k \in 1..Len(patterns) : PatternMatches(patterns[k], normalizedPath, basename)

-----------------------------------------------------------------------------
(* The filesystem                                                          *)

\* names of directory entries
WS == <<"w", "s">>
WSO == <<"w", "s", "-", "o">>
NA == <<"a">>
NB == <<"b">>
NC == <<"c">>
NE == <<"e">>
NF == <<"f">>
NR == <<"r">>
NS == <<"s">>
NX == <<"x">>

Dir(p) == [path |-> p, kind |-> "dir"]
File(p) == [path |-> p, kind |-> "file"]

\* /ws-o is a sibling of the workspace /ws whose name starts with the workspace's
Siblings == {Dir(<<WSO>>), File(<<WSO, NS>>)}

\* /ws: a/b/c, a/x/f, x/f, r
TreeNested ==
    {Dir(<<WS>>), Dir(<<WS, NA>>), Dir(<<WS, NA, NB>>), File(<<WS, NA, NB, NC>>),
     Dir(<<WS, NA, NX>>), File(<<WS, NA, NX, NF>>),
     Dir(<<WS, NX>>), File(<<WS, NX, NF>>), File(<<WS, NR>>)} \cup Siblings

\* /ws: a/x (a file named x), e/ (an empty directory), r
TreeFlat ==
    {Dir(<<WS>>), Dir(<<WS, NA>>), File(<<WS, NA, NX>>), Dir(<<WS, NE>>),
     File(<<WS, NR>>)} \cup Siblings

\* /ws: e/e/ (directories only)
TreeHollow == {Dir(<<WS>>), Dir(<<WS, NE>>), Dir(<<WS, NE, NE>>)} \cup Siblings

Trees == {TreeNested, TreeFlat, TreeHollow}

\* the names along an absolute path
PathSegs(abs) == SelectSeq(Split(abs, "/"), LAMBDA seg : seg # <<>>)

\* fs.stat: the kind of the node, or the errno of the failure
Stat(tree, abs) ==
    LET segs == PathSegs(abs)
    IN  IF segs = <<>> THEN "dir"
        ELSE IF \E n \in tree : n.path = segs
             THEN (CHOOSE n \in tree : n.path = segs).kind
             ELSE IF \E n \in tree : /\ n.kind = "file"
                                     /\ Len(n.path) < Len(segs)
                                     /\ SubSeq(segs, 1, Len(n.path)) = n.path
                  THEN "ENOTDIR"
                  ELSE "ENOENT"

\* the Dirents of a directory
DirEntries(tree, abs) ==
    LET segs == PathSegs(abs)
    IN  {[name |-> n.path[Len(n.path)], isDirectory |-> n.kind = "dir"] :
            n \in {m \in tree : /\ Len(m.path) = Len(segs) + 1
                                /\ SubSeq(m.path, 1, Len(segs)) = segs}}

\* every order in which a directory's entries can be enumerated
Orders(entries) ==
    {o \in [1..Cardinality(entries) -> entries] :
        \A i, j \in 1..Cardinality(entries) : o[i] = o[j] => i = j}

\* fs.readdir(dir, {withFileTypes: true}): the entries in some order, or an errno
ReadDirOutcomes(tree, abs) ==
    IF Stat(tree, abs) = "dir"
    THEN {[errno |-> "", entries |-> o] : o \in Orders(DirEntries(tree, abs))}
    ELSE {[errno |-> IF Stat(tree, abs) = "file" THEN "ENOTDIR" ELSE Stat(tree, abs),
           entries |-> <<>>]}

-----------------------------------------------------------------------------
(* Parameters and results                                                  *)

\* A parameter object is a function from the keys the caller gave to their values.
NoParams == <<>>

Has(params, key) == key \in DOMAIN params

\* readStringParam / readStringArrayParam of ./common.js with {required: false}:
\* the value, or undefined for a key the caller left out
ReadParam(params, key, undefined) == IF Has(params, key) THEN params[key] ELSE undefined

Dot == <<".">>

\* the default ignore / exclude list
DefaultIgnore ==
    << <<".", "g", "i", "t">>,
       <<"n", "o", "d", "e", "_", "m", "o", "d", "u", "l", "e", "s">>,
       <<"d", "i", "s", "t">>,
       <<"c", "o", "v", "e", "r", "a", "g", "e">> >>

\* a result with one text block
Ok(text) == [kind |-> "ok", text |-> text]

\* a thrown error: ToolInputError for caller-input errors; `code` is the error's
\* code property ("" when it has none)
ToolInputError(message) ==
    [kind |-> "error", class |-> "ToolInputError", code |-> "", message |-> message]

AccessDenied(relativePath) ==
    ToolInputError(<<"Access denied: ", relativePath, " is outside workspace root.">>)

\* what a failed fs call throws
ErrnoError(code) == [kind |-> "error", class |-> "Error", code |-> code, message |-> <<code>>]

\* Ensure targetDir is within root
WithinRoot(targetDir, rootDir) == StartsWith(targetDir, rootDir)

-----------------------------------------------------------------------------
(* Output limiting                                                         *)

MAX_FILES == 1000

MAX_LINES == 500

\* whether items.join("\n") is the empty string
JoinIsEmpty(items) == items = <<>> \/ (Len(items) = 1 /\ items[1] = <<>>)

\* Limit cutting already at the ceiling (>= for >)
LimitAtCeiling(items, ceiling, unit, placeholder) ==
    LET truncated == Len(items) >= ceiling
        output == IF truncated THEN SubSeq(items, 1, ceiling) ELSE items
    IN  IF truncated
        THEN [lines |-> output, note |-> TRUE, more |-> Len(items) - ceiling, unit |-> unit,
              placeholder |-> ""]
        ELSE IF JoinIsEmpty(output)
             THEN [lines |-> <<>>, note |-> FALSE, more |-> 0, unit |-> unit,
                   placeholder |-> placeholder]
             ELSE [lines |-> output, note |-> FALSE, more |-> 0, unit |-> unit,
                   placeholder |-> ""]

\* Limit without the placeholder for an empty output
LimitNoPlaceholder(items, ceiling, unit, placeholder) ==
    LET truncated == Len(items) > ceiling
        output == IF truncated THEN SubSeq(items, 1, ceiling) ELSE items
    IN  [lines |-> output, note |-> truncated,
         more |-> IF truncated THEN Len(items) - ceiling ELSE 0,
         unit |-> unit, placeholder |-> ""]

\* A text block: `lines` joined by "\n", then with `note` the note "\n\n... and
\* <more> more <unit>."; or the placeholder when it is not "".
Limit(items, ceiling, unit, placeholder) ==
    LET truncated == Len(items) > ceiling
        output == IF truncated THEN SubSeq(items, 1, ceiling) ELSE items
    IN  IF truncated
        THEN [lines |-> output, note |-> TRUE, more |-> Len(items) - ceiling, unit |-> unit,
              placeholder |-> ""]
        ELSE IF JoinIsEmpty(output)
             THEN [lines |-> <<>>, note |-> FALSE, more |-> 0, unit |-> unit,
                   placeholder |-> placeholder]
             ELSE [lines |-> output, note |-> FALSE, more |-> 0, unit |-> unit,
                   placeholder |-> ""]

\* the text of a list_files result for the sorted entries
ListFilesText(files) == Limit(files, MAX_FILES, "files", "(empty directory)")

\* the text of a search result for the non-empty lines of stdout
SearchText(lines) == Limit(lines, MAX_LINES, "matches", "No matches found.")

\* whether a text block is the empty string
TextIsEmpty(text) == text.placeholder = "" /\ ~text.note /\ JoinIsEmpty(text.lines)

-----------------------------------------------------------------------------
(* list_files                                                              *)

Idle == [tool |-> "none", pc |-> "idle"]

\* SortFiles leaving the entries in the order of the walk
SortFilesWalkOrder(files) == files

\* files.sort(): ascending by code units
SortFiles(files) == SortSeq(files, StrLess)

\* a frame of walk(currentDir, currentRelative): `awaiting` while its readdir is
\* outstanding, then `entries` holds what the for loop has still to visit
Frame(currentDir, currentRelative) ==
    [currentDir |-> currentDir, currentRelative |-> currentRelative,
     awaiting |-> TRUE, entries |-> <<>>]

RECURSIVE WalkLoopKeepsEntry(_, _, _, _)
\* WalkLoop with a directory left in the entries of its parent when the walk
\* descends into it
WalkLoopKeepsEntry(stack, files, recursive, ignore) ==
    IF stack = <<>> THEN [stack |-> stack, files |-> files]
    ELSE LET top == stack[Len(stack)]
             below == SubSeq(stack, 1, Len(stack) - 1)
         IN  IF top.awaiting THEN [stack |-> stack, files |-> files]
             ELSE IF top.entries = <<>> THEN WalkLoopKeepsEntry(below, files, recursive, ignore)
             ELSE LET entry == Head(top.entries)
                      entryRelative == PathJoin(top.currentRelative, entry.name)
                      next == Append(below, [top EXCEPT !.entries = Tail(top.entries)])
                  IN  IF MatchesPattern(entryRelative, entry.name, ignore)
                      THEN WalkLoopKeepsEntry(next, files, recursive, ignore)
                      ELSE IF entry.isDirectory
                           THEN IF recursive
                                THEN [stack |-> Append(stack, Frame(PathJoin(top.currentDir, entry.name),
                                                                    entryRelative)),
                                      files |-> files]
                                ELSE WalkLoopKeepsEntry(next, Append(files, entryRelative \o <<"/">>),
                                                        recursive, ignore)
                           ELSE WalkLoopKeepsEntry(next, Append(files, entryRelative),
                                                   recursive, ignore)

RECURSIVE WalkLoopNoMarker(_, _, _, _)
\* WalkLoop with a directory pushed without its "/" when the walk is not recursive
WalkLoopNoMarker(stack, files, recursive, ignore) ==
    IF stack = <<>> THEN [stack |-> stack, files |-> files]
    ELSE LET top == stack[Len(stack)]
             below == SubSeq(stack, 1, Len(stack) - 1)
         IN  IF top.awaiting THEN [stack |-> stack, files |-> files]
             ELSE IF top.entries = <<>> THEN WalkLoopNoMarker(below, files, recursive, ignore)
             ELSE LET entry == Head(top.entries)
                      entryRelative == PathJoin(top.currentRelative, entry.name)
                      next == Append(below, [top EXCEPT !.entries = Tail(top.entries)])
                  IN  IF MatchesPattern(entryRelative, entry.name, ignore)
                      THEN WalkLoopNoMarker(next, files, recursive, ignore)
                      ELSE IF entry.isDirectory /\ recursive
                           THEN [stack |-> Append(next, Frame(PathJoin(top.currentDir, entry.name),
                                                              entryRelative)),
                                 files |-> files]
                           ELSE WalkLoopNoMarker(next, Append(files, entryRelative),
                                                 recursive, ignore)

RECURSIVE WalkLoopListsDirectories(_, _, _, _)
\* WalkLoop with a directory pushed before the recursive walk descends into it
WalkLoopListsDirectories(stack, files, recursive, ignore) ==
    IF stack = <<>> THEN [stack |-> stack, files |-> files]
    ELSE LET top == stack[Len(stack)]
             below == SubSeq(stack, 1, Len(stack) - 1)
         IN  IF top.awaiting THEN [stack |-> stack, files |-> files]
             ELSE IF top.entries = <<>>
                  THEN WalkLoopListsDirectories(below, files, recursive, ignore)
             ELSE LET entry == Head(top.entries)
                      entryRelative == PathJoin(top.currentRelative, entry.name)
                      next == Append(below, [top EXCEPT !.entries = Tail(top.entries)])
                  IN  IF MatchesPattern(entryRelative, entry.name, ignore)
                      THEN WalkLoopListsDirectories(next, files, recursive, ignore)
                      ELSE IF entry.isDirectory
                           THEN IF recursive
                                THEN [stack |-> Append(next, Frame(PathJoin(top.currentDir, entry.name),
                                                                   entryRelative)),
                                      files |-> Append(files, entryRelative \o <<"/">>)]
                                ELSE WalkLoopListsDirectories(
                                         next, Append(files, entryRelative \o <<"/">>),
                                         recursive, ignore)
                           ELSE WalkLoopListsDirectories(next, Append(files, entryRelative),
                                                         recursive, ignore)

RECURSIVE WalkLoopFiltersFilesOnly(_, _, _, _)
\* WalkLoop with the ignore test made for files only: every directory is descended
WalkLoopFiltersFilesOnly(stack, files, recursive, ignore) ==
    IF stack = <<>> THEN [stack |-> stack, files |-> files]
    ELSE LET top == stack[Len(stack)]
             below == SubSeq(stack, 1, Len(stack) - 1)
         IN  IF top.awaiting THEN [stack |-> stack, files |-> files]
             ELSE IF top.entries = <<>>
                  THEN WalkLoopFiltersFilesOnly(below, files, recursive, ignore)
             ELSE LET entry == Head(top.entries)
                      entryRelative == PathJoin(top.currentRelative, entry.name)
                      next == Append(below, [top EXCEPT !.entries = Tail(top.entries)])
                  IN  IF entry.isDirectory /\ recursive
                      THEN [stack |-> Append(next, Frame(PathJoin(top.currentDir, entry.name),
                                                         entryRelative)),
                            files |-> files]
                      ELSE IF MatchesPattern(entryRelative, entry.name, ignore)
                           THEN WalkLoopFiltersFilesOnly(next, files, recursive, ignore)
                           ELSE WalkLoopFiltersFilesOnly(
                                    next,
                                    Append(files, IF entry.isDirectory
                                                  THEN entryRelative \o <<"/">>
                                                  ELSE entryRelative),
                                    recursive, ignore)

RECURSIVE WalkLoop(_, _, _, _)
\* The for loops of the walk frames on the stack, run until the next await: a
\* recursive call of walk stops at its readdir, a finished loop returns to the
\* frame below it. Gives the stack and the accumulator at that point.
WalkLoop(stack, files, recursive, ignore) ==
    IF stack = <<>> THEN [stack |-> stack, files |-> files]
    ELSE LET top == stack[Len(stack)]
             below == SubSeq(stack, 1, Len(stack) - 1)
         IN  IF top.awaiting THEN [stack |-> stack, files |-> files]
             ELSE IF top.entries = <<>> THEN WalkLoop(below, files, recursive, ignore)
             ELSE LET entry == Head(top.entries)
                      entryRelative == PathJoin(top.currentRelative, entry.name)
                      next == Append(below, [top EXCEPT !.entries = Tail(top.entries)])
                  IN  IF MatchesPattern(entryRelative, entry.name, ignore)
                      THEN WalkLoop(next, files, recursive, ignore)
                      ELSE IF entry.isDirectory
                           THEN IF recursive
                                THEN [stack |-> Append(next, Frame(PathJoin(top.currentDir, entry.name),
                                                                   entryRelative)),
                                      files |-> files]
                                ELSE WalkLoop(next, Append(files, entryRelative \o <<"/">>),
                                              recursive, ignore)
                           ELSE WalkLoop(next, Append(files, entryRelative), recursive, ignore)

\* the catch clause of execute
ListFilesCatch(error, relativePath) ==
    IF error.code = "ENOENT"
    THEN ToolInputError(<<"Directory not found: ", relativePath>>)
    ELSE error

\* ListFilesStart with the accumulator kept by the tool from its earlier invocation
ListFilesStartKeepsFiles(params, rootDir) ==
    LET relativePath == ReadParam(params, "path", Dot)
        recursive == ReadParam(params, "recursive", TRUE) # FALSE
        ignore == ReadParam(params, "ignore", DefaultIgnore)
        targetDir == PathResolve(rootDir, relativePath)
        c == [tool |-> "list_files", params |-> params, relativePath |-> relativePath,
              recursive |-> recursive, ignore |-> ignore, targetDir |-> targetDir,
              stack |-> <<>>, files |-> IF last.tool = "list_files" THEN last.files ELSE <<>>,
              reads |-> <<>>, answers |-> <<>>]
    IN  IF ~WithinRoot(targetDir, rootDir)
        THEN c @@ [pc |-> "done", stats |-> <<>>, result |-> AccessDenied(relativePath)]
        ELSE c @@ [pc |-> "stat", stats |-> <<targetDir>>, result |-> [kind |-> "none"]]

\* execute up to its first await: the parameters are read, the path is guarded
\* and fs.stat is called. The record of an invocation logs its I/O: `stats` the
\* paths fs.stat was called on, `reads` the directories fs.readdir was called on,
\* `answers` the entries each readdir answered with, in the order of the answers.
ListFilesStart(params, rootDir) ==
    LET relativePath == ReadParam(params, "path", Dot)
        recursive == ReadParam(params, "recursive", TRUE) # FALSE
        ignore == ReadParam(params, "ignore", DefaultIgnore)
        targetDir == PathResolve(rootDir, relativePath)
        c == [tool |-> "list_files", params |-> params, relativePath |-> relativePath,
              recursive |-> recursive, ignore |-> ignore, targetDir |-> targetDir,
              stack |-> <<>>, files |-> <<>>, reads |-> <<>>, answers |-> <<>>]
    IN  IF ~WithinRoot(targetDir, rootDir)
        THEN c @@ [pc |-> "done", stats |-> <<>>, result |-> AccessDenied(relativePath)]
        ELSE c @@ [pc |-> "stat", stats |-> <<targetDir>>, result |-> [kind |-> "none"]]

\* ListFilesStat with the walk started at the empty relative path for every target
ListFilesStatBareRelative(c, stats) ==
    IF stats \notin {"dir", "file"}
    THEN [c EXCEPT !.pc = "done", !.result = ListFilesCatch(ErrnoError(stats), c.relativePath)]
    ELSE IF stats # "dir"
         THEN [c EXCEPT !.pc = "done",
                        !.result = ListFilesCatch(
                            ToolInputError(<<c.relativePath, " is not a directory.">>),
                            c.relativePath)]
         ELSE [c EXCEPT !.pc = "walk",
                        !.stack = <<Frame(c.targetDir, <<>>)>>,
                        !.reads = <<c.targetDir>>]

\* fs.stat(targetDir) returns: the first call of walk is made and awaits its readdir
ListFilesStat(c, stats) ==
    IF stats \notin {"dir", "file"}
    THEN [c EXCEPT !.pc = "done", !.result = ListFilesCatch(ErrnoError(stats), c.relativePath)]
    ELSE IF stats # "dir"
         THEN [c EXCEPT !.pc = "done",
                        !.result = ListFilesCatch(
                            ToolInputError(<<c.relativePath, " is not a directory.">>),
                            c.relativePath)]
         ELSE [c EXCEPT !.pc = "walk",
                        !.stack = <<Frame(c.targetDir,
                                          IF c.relativePath = Dot THEN <<>> ELSE c.relativePath)>>,
                        !.reads = <<c.targetDir>>]

\* ListFilesReadDir with one accumulator shared by the invocations in flight:
\* the one of the first slot
ListFilesReadDirSharedFiles(c, outcome) ==
    IF outcome.errno # ""
    THEN [c EXCEPT !.pc = "done",
                   !.result = ListFilesCatch(ErrnoError(outcome.errno), c.relativePath)]
    ELSE LET top == c.stack[Len(c.stack)]
             resumed == Append(SubSeq(c.stack, 1, Len(c.stack) - 1),
                               [top EXCEPT !.awaiting = FALSE, !.entries = outcome.entries])
             shared == IF calls[1].tool = "list_files" THEN calls[1].files ELSE c.files
             at == WalkLoop(resumed, shared, c.recursive, c.ignore)
         IN  IF at.stack # <<>>
             THEN [c EXCEPT !.stack = at.stack, !.files = at.files,
                            !.reads = Append(@, at.stack[Len(at.stack)].currentDir),
                            !.answers = Append(@, outcome.entries)]
             ELSE [c EXCEPT !.pc = "done", !.stack = <<>>, !.files = SortFiles(at.files),
                            !.answers = Append(@, outcome.entries),
                            !.result = Ok(ListFilesText(SortFiles(at.files)))]

\* a readdir returns: the loops run to the next readdir, or to the end of the
\* walk, where the entries are sorted, limited and returned
ListFilesReadDir(c, outcome) ==
    IF outcome.errno # ""
    THEN [c EXCEPT !.pc = "done",
                   !.result = ListFilesCatch(ErrnoError(outcome.errno), c.relativePath)]
    ELSE LET top == c.stack[Len(c.stack)]
             resumed == Append(SubSeq(c.stack, 1, Len(c.stack) - 1),
                               [top EXCEPT !.awaiting = FALSE, !.entries = outcome.entries])
             at == WalkLoop(resumed, c.files, c.recursive, c.ignore)
         IN  IF at.stack # <<>>
             THEN [c EXCEPT !.stack = at.stack, !.files = at.files,
                            !.reads = Append(@, at.stack[Len(at.stack)].currentDir),
                            !.answers = Append(@, outcome.entries)]
             ELSE [c EXCEPT !.pc = "done", !.stack = <<>>, !.files = SortFiles(at.files),
                            !.answers = Append(@, outcome.entries),
                            !.result = Ok(ListFilesText(SortFiles(at.files)))]

-----------------------------------------------------------------------------
(* search                                                                  *)

FlagRIn == <<"-", "r", "I", "n">>
FlagI == <<"-", "i">>
FlagE == <<"-", "E">>
FlagInclude == <<"-", "-", "i", "n", "c", "l", "u", "d", "e">>
FlagExclude == <<"-", "-", "e", "x", "c", "l", "u", "d", "e">>
FlagExcludeDir == <<"-", "-", "e", "x", "c", "l", "u", "d", "e", "-", "d", "i", "r">>
FlagPattern == <<"-", "e">>

\* GrepArgs with the pattern pushed without its -e flag
GrepArgsBarePattern(pattern, relativePath, include, exclude, caseSensitive) ==
    <<FlagRIn>>
    \o (IF ~caseSensitive THEN <<FlagI>> ELSE <<>>)
    \o <<FlagE>>
    \o [i \in 1..(2 * Len(include)) |-> IF i % 2 = 1 THEN FlagInclude ELSE include[i \div 2]]
    \o [i \in 1..(4 * Len(exclude)) |->
            CASE i % 4 = 1 -> FlagExclude
              [] i % 4 = 2 -> exclude[(i + 3) \div 4]
              [] i % 4 = 3 -> FlagExcludeDir
              [] OTHER -> exclude[(i + 3) \div 4]]
    \o <<pattern>>
    \o <<relativePath>>

\* GrepArgs with --exclude alone pushed for an exclude entry
GrepArgsNoExcludeDir(pattern, relativePath, include, exclude, caseSensitive) ==
    <<FlagRIn>>
    \o (IF ~caseSensitive THEN <<FlagI>> ELSE <<>>)
    \o <<FlagE>>
    \o [i \in 1..(2 * Len(include)) |-> IF i % 2 = 1 THEN FlagInclude ELSE include[i \div 2]]
    \o [i \in 1..(2 * Len(exclude)) |-> IF i % 2 = 1 THEN FlagExclude ELSE exclude[i \div 2]]
    \o <<FlagPattern, pattern>>
    \o <<relativePath>>

\* GrepArgs with -i pushed for a case-sensitive search instead
GrepArgsCaseInverted(pattern, relativePath, include, exclude, caseSensitive) ==
    <<FlagRIn>>
    \o (IF caseSensitive THEN <<FlagI>> ELSE <<>>)
    \o <<FlagE>>
    \o [i \in 1..(2 * Len(include)) |-> IF i % 2 = 1 THEN FlagInclude ELSE include[i \div 2]]
    \o [i \in 1..(4 * Len(exclude)) |->
            CASE i % 4 = 1 -> FlagExclude
              [] i % 4 = 2 -> exclude[(i + 3) \div 4]
              [] i % 4 = 3 -> FlagExcludeDir
              [] OTHER -> exclude[(i + 3) \div 4]]
    \o <<FlagPattern, pattern>>
    \o <<relativePath>>

\* the argument vector handed to grep
GrepArgs(pattern, relativePath, include, exclude, caseSensitive) ==
    LET includes == [i \in 1..(2 * Len(include)) |->
                        IF i % 2 = 1 THEN FlagInclude ELSE include[i \div 2]]
        excludes == [i \in 1..(4 * Len(exclude)) |->
                        CASE i % 4 = 1 -> FlagExclude
                          [] i % 4 = 2 -> exclude[(i + 3) \div 4]
                          [] i % 4 = 3 -> FlagExcludeDir
                          [] OTHER -> exclude[(i + 3) \div 4]]
    IN  <<FlagRIn>>
        \o (IF ~caseSensitive THEN <<FlagI>> ELSE <<>>)
        \o <<FlagE>>
        \o includes
        \o excludes
        \o <<FlagPattern, pattern>>
        \o <<relativePath>>

\* SearchStart with grep started before the path is guarded
SearchStartSpawnsFirst(params, rootDir) ==
    LET pattern == params["pattern"]
        relativePath == ReadParam(params, "path", Dot)
        include == ReadParam(params, "include", <<>>)
        exclude == ReadParam(params, "exclude", DefaultIgnore)
        caseSensitive == Has(params, "caseSensitive") /\ params["caseSensitive"] = TRUE
        targetDir == PathResolve(rootDir, relativePath)
        c == [tool |-> "search", params |-> params, relativePath |-> relativePath,
              targetDir |-> targetDir, exec |-> [code |-> -1, stdout |-> <<>>,
                                                 stderr |-> "", message |-> "not run"],
              spawned |-> <<[file |-> "grep", shell |-> FALSE, cwd |-> rootDir,
                             args |-> GrepArgs(pattern, relativePath, include, exclude,
                                               caseSensitive)]>>]
    IN  IF ~WithinRoot(targetDir, rootDir)
        THEN c @@ [pc |-> "done", result |-> AccessDenied(relativePath)]
        ELSE c @@ [pc |-> "grep", result |-> [kind |-> "none"]]

\* execute up to its await: the path is guarded and grep is started
SearchStart(params, rootDir) ==
    LET pattern == params["pattern"]
        relativePath == ReadParam(params, "path", Dot)
        include == ReadParam(params, "include", <<>>)
        exclude == ReadParam(params, "exclude", DefaultIgnore)
        caseSensitive == Has(params, "caseSensitive") /\ params["caseSensitive"] = TRUE
        targetDir == PathResolve(rootDir, relativePath)
        c == [tool |-> "search", params |-> params, relativePath |-> relativePath,
              targetDir |-> targetDir, exec |-> [code |-> -1, stdout |-> <<>>,
                                                 stderr |-> "", message |-> "not run"]]
    IN  IF ~WithinRoot(targetDir, rootDir)
        THEN c @@ [pc |-> "done", spawned |-> <<>>, result |-> AccessDenied(relativePath)]
        ELSE c @@ [pc |-> "grep",
                   spawned |-> <<[file |-> "grep", shell |-> FALSE, cwd |-> rootDir,
                                  args |-> GrepArgs(pattern, relativePath, include, exclude,
                                                    caseSensitive)]>>,
                   result |-> [kind |-> "none"]]

\* stdout.split("\n").filter(Boolean), stdout given as the segments between its newlines
SearchLines(stdout) == SelectSeq(stdout, LAMBDA seg : seg # <<>>)

\* How execFile ends. code: the exit code, or -1 when the error's code is no
\* number (a signal: null; the buffer limit or a failed spawn: a string).
ExecEnd(code, stdout, stderr, message) ==
    [code |-> code, stdout |-> stdout, stderr |-> stderr, message |-> message]

\* the rejection of execFileAsync, as thrown
ExecError(end) ==
    [kind |-> "error", class |-> "Error", code |-> end.code, stderr |-> end.stderr,
     message |-> <<end.message>>]

\* SearchEnd returning the lines printed so far when grep ends in another way
\* than with exit code 0, 1 or 2
SearchEndKeepsPartial(c, end) ==
    IF end.code = 0
    THEN [c EXCEPT !.pc = "done", !.exec = end,
                   !.result = Ok(SearchText(SearchLines(end.stdout)))]
    ELSE IF end.code = 1
         THEN [c EXCEPT !.pc = "done", !.exec = end,
                        !.result = Ok([lines |-> <<>>, note |-> FALSE, more |-> 0,
                                       unit |-> "matches",
                                       placeholder |-> "No matches found."])]
         ELSE IF end.code = 2
              THEN [c EXCEPT !.pc = "done", !.exec = end,
                             !.result = ToolInputError(
                                 <<"Grep error: ",
                                   IF end.stderr # "" THEN end.stderr ELSE end.message>>)]
              ELSE [c EXCEPT !.pc = "done", !.exec = end,
                             !.result = Ok(SearchText(SearchLines(end.stdout)))]

\* SearchEnd with every non-zero exit code of grep rethrown
SearchEndOneThrows(c, end) ==
    IF end.code = 0
    THEN [c EXCEPT !.pc = "done", !.exec = end,
                   !.result = Ok(SearchText(SearchLines(end.stdout)))]
    ELSE [c EXCEPT !.pc = "done", !.exec = end, !.result = ExecError(end)]

\* execute after the await: the try body for exit code 0, the catch clause otherwise
SearchEnd(c, end) ==
    IF end.code = 0
    THEN [c EXCEPT !.pc = "done", !.exec = end,
                   !.result = Ok(SearchText(SearchLines(end.stdout)))]
    ELSE IF end.code = 1
         THEN [c EXCEPT !.pc = "done", !.exec = end,
                        !.result = Ok([lines |-> <<>>, note |-> FALSE, more |-> 0,
                                       unit |-> "matches",
                                       placeholder |-> "No matches found."])]
         ELSE IF end.code = 2
              THEN [c EXCEPT !.pc = "done", !.exec = end,
                             !.result = ToolInputError(
                                 <<"Grep error: ",
                                   IF end.stderr # "" THEN end.stderr ELSE end.message>>)]
              ELSE [c EXCEPT !.pc = "done", !.exec = end, !.result = ExecError(end)]

-----------------------------------------------------------------------------
(* pruneMapToMaxSize                                                       *)

\* A Map is the sequence of its entries [key, value] in insertion order; a
\* number is the fraction num / den with den > 0.

MathFloor(x) == x.num \div x.den

MathMax(a, b) == IF a >= b THEN a ELSE b

\* map.set: a new key goes to the end, a present key keeps its place
MapSet(m, key, value) ==
    IF \E i \in 1..Len(m) : m[i].key = key
    THEN [i \in 1..Len(m) |-> IF m[i].key = key THEN [key |-> key, value |-> value] ELSE m[i]]
    ELSE Append(m, [key |-> key, value |-> value])

\* map.delete
MapDelete(m, key) == SelectSeq(m, LAMBDA e : e.key # key)

RECURSIVE PruneLoop(_, _, _)
\* the for loop from its i-th round: keys.next() gives the first entry not yet
\* visited, which is the oldest entry left, or is done on an empty map
PruneLoop(m, i, toRemove) ==
    IF ~(i < toRemove) THEN m
    ELSE IF m = <<>> THEN m
    ELSE PruneLoop(MapDelete(m, Head(m).key), i + 1, toRemove)

\* pruneMapToMaxSize with one round too many in the loop (i <= toRemove)
PruneMapToMaxSizeOneMore(m, maxSize) ==
    LET limit == MathMax(0, MathFloor(maxSize))
    IN  IF limit <= 0 THEN <<>>
        ELSE LET toRemove == Len(m) - limit
             IN  IF toRemove <= 0 THEN m
                 ELSE PruneLoop(m, 0, toRemove + 1)

\* pruneMapToMaxSize deleting from the newest end
PruneMapToMaxSizeNewestFirst(m, maxSize) ==
    LET limit == MathMax(0, MathFloor(maxSize))
    IN  IF limit <= 0 THEN <<>>
        ELSE LET toRemove == Len(m) - limit
             IN  IF toRemove <= 0 THEN m
                 ELSE SubSeq(m, 1, limit)

\* the map after pruneMapToMaxSize(map, maxSize)
PruneMapToMaxSize(m, maxSize) ==
    LET limit == MathMax(0, MathFloor(maxSize))
    IN  IF limit <= 0 THEN <<>>
        ELSE LET toRemove == Len(m) - limit
             IN  IF toRemove <= 0 THEN m
                 ELSE PruneLoop(m, 0, toRemove)

-----------------------------------------------------------------------------
(* What callers pass and what the environment answers                      *)

\* the invocations of list_files that run side by side
Slots == {1, 2}

\* the parameters of the invocations that run side by side
ConcParams ==
    {NoParams, "path" :> NA, "recursive" :> FALSE, "path" :> <<"n">>}

\* no pattern is being tried
NotTried == [pattern |-> <<>>, filePath |-> <<>>, outcome |-> "none"]

\* the longest pattern and the longest path made of every combination of their
\* alphabets
MaxGlobLen == 2

\* every string over an alphabet from length `least` up to length n
Strings(alphabet, least, n) == UNION {[1..k -> alphabet] : k \in least..n}

\* the patterns that are tried: every short pattern over the wildcards, the
\* separator and a regex metacharacter; every regex metacharacter on its own
\* and after a letter; the patterns of the documentation
GlobPatterns ==
    Strings({"a", "/", "*", "?", "."}, 1, MaxGlobLen)
    \cup {<<m>> : m \in RegexChars}
    \cup {<<"a", m>> : m \in RegexChars}
    \cup {<<"*", ".", "t", "s">>, <<"a", ".", "b">>, <<"a", "/", "b">>, <<"a", "/", "b", "/">>,
          <<"a", "/", "*">>, <<"n">>}

\* a relative path as the walk builds it: names that are not empty, "." or "..",
\* with one separator between them
IsEntryPath(s) ==
    /\ s # <<>>
    /\ \A i \in 1..Len(Split(s, "/")) : Split(s, "/")[i] \notin {<<>>, <<".">>, <<".", ".">>}

\* the paths the patterns are tried on: every short path over a letter, the
\* separator, the dot and the newline; every regex metacharacter as a name and
\* after a letter; the paths of the documentation
GlobPaths ==
    {s \in Strings({"a", "/", ".", "\n"}, 1, MaxGlobLen) : IsEntryPath(s)}
    \cup {<<m>> : m \in RegexChars}
    \cup {<<"a", m>> : m \in RegexChars}
    \cup {<<"a", ".", "t", "s">>, <<"a", ".", "t", "s", "x">>, <<"a", "x", "t", "s">>,
          <<"a", "x", "b">>, <<"a", ".", "b">>, <<"a", "/", "b">>, <<"o", "/", "a", "/", "b">>,
          <<"a", "/", "b", "/", "c">>, <<"s", "/", "n">>, <<"n">>}

\* no call of pruneMapToMaxSize has returned since the map was last written
NotPruned == [done |-> FALSE]

MapKeys == {"k0", "k1", "k2", "k3"}

MapValues == {0, 1}

\* the sizes a map is pruned to: whole numbers from below zero to above every
\* size, and 1/2, 3/2, -1/2
MaxSizes ==
    {[num |-> n, den |-> 1] : n \in -2..(Cardinality(MapKeys) + 1)}
    \cup {[num |-> n, den |-> 2] : n \in {-1, 1, 3}}

\* the largest number of non-empty lines grep prints in the tool specification
MaxStdoutLines == 2

\* how far past its ceiling the output limiter is tried
LimitExtra == 2

Roots == {<<"/">> \o WS, <<"/">> \o WS \o <<"/">>}

PathArgs ==
    {Dot, NA, NX, NE, NR, <<"n">>, <<"r", "/", "n">>, <<".", "/", "x">>, <<"a", "/">>,
     <<"/">> \o WS \o <<"/", "a">>, <<".", ".">>, <<".", ".", "/">> \o WSO,
     <<".", ".", "/", "w", "s", "-", "q">>, <<".", ".", "/", "o">>}

IgnoreArgs ==
    {<<>>, <<NX>>, << <<"x", "/">> >>, << <<"a", "/", "*", "*">> >>,
     << <<"*", "*", "/", "f">> >>, << <<"a", "/", "b">> >>}

Optional(key, values) == {NoParams} \cup {key :> v : v \in values}

ListFilesParams ==
    {p @@ r @@ i : p \in Optional("path", PathArgs),
                   r \in Optional("recursive", BOOLEAN),
                   i \in Optional("ignore", IgnoreArgs)}

SearchPatterns == {<<"h">>, <<"-", "v">>, Dot, FlagPattern, FlagI}

SearchPathArgs == {NA, <<".", ".">>, <<".", ".", "/">> \o WSO, <<"-", "v">>}

IncludeArgs == {<<>>, << <<"*", ".", "m">> >>, <<FlagPattern>>, << <<"*", ".", "t">>, <<"*", ".", "m">> >>}

ExcludeArgs == {<<>>, << <<"*", ".", "t">> >>, <<NX, NA>>}

SearchParams ==
    {("pattern" :> q) @@ p @@ i @@ x @@ cs :
        q \in SearchPatterns,
        p \in Optional("path", SearchPathArgs),
        i \in Optional("include", IncludeArgs),
        x \in Optional("exclude", ExcludeArgs),
        cs \in Optional("caseSensitive", BOOLEAN)}

Digit == <<"0", "1", "2", "3", "4", "5", "6", "7", "8", "9">>

\* the i-th of a run of distinct names, in ascending order
Numbered(prefix, i) ==
    prefix \o <<Digit[((i \div 1000) % 10) + 1], Digit[((i \div 100) % 10) + 1],
                Digit[((i \div 10) % 10) + 1], Digit[(i % 10) + 1]>>

\* the segments of a stdout of n lines "r:<i>", each ended by a newline, and one
\* with an empty line after every line
StdoutOf(n) == [i \in 1..(n + 1) |-> IF i <= n THEN Numbered(<<"r", ":">>, i) ELSE <<>>]

StdoutBlanks(n) ==
    [i \in 1..(2 * n + 1) |-> IF i % 2 = 1 /\ i < 2 * n THEN Numbered(<<"r", ":">>, (i + 1) \div 2)
                              ELSE <<>>]

\* the ways the grep process can end
ExecEnds ==
    {ExecEnd(0, out, "", "") : out \in {StdoutOf(n) : n \in 0..MaxStdoutLines}
                                     \cup {StdoutBlanks(n) : n \in 1..MaxStdoutLines}}
    \cup {ExecEnd(1, <<>>, "", "Command failed: grep"),
          ExecEnd(2, <<>>, "grep: Unmatched ( or \\(", "Command failed: grep"),
          ExecEnd(2, <<>>, "", "Command failed: grep"),
          ExecEnd(3, <<>>, "", "Command failed: grep"),
          ExecEnd(-1, <<>>, "", "killed by SIGKILL"),
          ExecEnd(-1, <<>>, "", "stdout maxBuffer length exceeded"),
          ExecEnd(-1, StdoutOf(1), "", "stdout maxBuffer length exceeded"),
          ExecEnd(3, StdoutOf(1), "", "Command failed: grep"),
          ExecEnd(-1, <<>>, "", "spawn grep ENOENT")}

\* what the output limiter is tried on: sorted listings and stdouts around the ceilings
LimitInputs ==
    {[tool |-> "list_files", items |-> [i \in 1..n |-> Numbered(<<"f">>, i)]] :
        n \in 0..(MAX_FILES + LimitExtra)}
    \cup {[tool |-> "search", items |-> StdoutOf(n)] : n \in 0..(MAX_LINES + LimitExtra)}

-----------------------------------------------------------------------------
(* The tools as a state machine                                            *)

Init ==
    /\ root \in Roots
    /\ fs \in Trees
    /\ call = Idle
    /\ limIn = [tool |-> "none", items |-> <<>>]
    /\ limOut = [kind |-> "none"]
    /\ last = Idle
    /\ calls = [slot \in Slots |-> Idle]
    /\ order = <<>>
    /\ map = <<>>
    /\ pruned = NotPruned
    /\ glob = NotTried

\* no invocation is in flight
Ready == call.pc = "idle"

\* a caller invokes list_files
ListFilesExecute ==
    /\ Ready
    /\ \E params \in ListFilesParams : call' = ListFilesStart(params, root)
    /\ UNCHANGED <<root, fs, limVars, last, concVars, mapVars, glob>>

\* fs.stat of the target answers
ListFilesStatReturns ==
    /\ call.pc = "stat"
    /\ call' = ListFilesStat(call, Stat(fs, call.targetDir))
    /\ UNCHANGED <<root, fs, limVars, last, concVars, mapVars, glob>>

\* the outstanding fs.readdir answers
ListFilesReadDirReturns ==
    /\ call.pc = "walk"
    /\ \E outcome \in ReadDirOutcomes(fs, call.stack[Len(call.stack)].currentDir) :
           call' = ListFilesReadDir(call, outcome)
    /\ UNCHANGED <<root, fs, limVars, last, concVars, mapVars, glob>>

\* a caller invokes search
SearchExecute ==
    /\ Ready
    /\ \E params \in SearchParams : call' = SearchStart(params, root)
    /\ UNCHANGED <<root, fs, limVars, last, concVars, mapVars, glob>>

\* the grep process ends
SearchGrepEnds ==
    /\ call.pc = "grep"
    /\ \E end \in ExecEnds : call' = SearchEnd(call, end)
    /\ UNCHANGED <<root, fs, limVars, last, concVars, mapVars, glob>>

\* the promise of execute settles and the caller takes the result or the error
CallSettles ==
    /\ call.pc = "done"
    /\ call' = Idle
    /\ UNCHANGED <<root, fs, limVars, last, concVars, mapVars, glob>>

Next ==
    \/ ListFilesExecute
    \/ ListFilesStatReturns
    \/ ListFilesReadDirReturns
    \/ SearchExecute
    \/ SearchGrepEnds
    \/ CallSettles

Spec == Init /\ [][Next]_vars

(* The output limiter on its own, around its ceilings *)

InitLimit ==
    /\ root = <<"/">> \o WS
    /\ fs = TreeFlat
    /\ call = Idle
    /\ limIn \in LimitInputs
    /\ limOut = [kind |-> "none"]
    /\ last = Idle
    /\ calls = [slot \in Slots |-> Idle]
    /\ order = <<>>
    /\ map = <<>>
    /\ pruned = NotPruned
    /\ glob = NotTried

\* lines 127..146 of execute, on a sorted listing
LimitListFiles ==
    /\ limIn.tool = "list_files"
    /\ limOut.kind = "none"
    /\ limOut' = Ok(ListFilesText(limIn.items))
    /\ UNCHANGED <<root, fs, call, limIn, last, concVars, mapVars, glob>>

\* lines 253..274 of execute, on a stdout of an exit with code 0
LimitSearch ==
    /\ limIn.tool = "search"
    /\ limOut.kind = "none"
    /\ limOut' = Ok(SearchText(SearchLines(limIn.items)))
    /\ UNCHANGED <<root, fs, call, limIn, last, concVars, mapVars, glob>>

NextLimit == LimitListFiles \/ LimitSearch

SpecLimit == InitLimit /\ [][NextLimit]_vars

(* The same invocation of list_files made twice on one tool *)

\* what the caller keeps of an invocation that settled
Settled(c) ==
    [tool |-> c.tool, pc |-> "settled", params |-> c.params, files |-> c.files,
     result |-> c.result]

\* the first invocation
FirstExecute ==
    /\ last.tool = "none"
    /\ ListFilesExecute

\* the first invocation settles; the filesystem is left as it is
FirstSettles ==
    /\ call.tool = "list_files" /\ call.pc = "done"
    /\ last.tool = "none"
    /\ last' = Settled(call)
    /\ call' = Idle
    /\ UNCHANGED <<root, fs, limVars, concVars, mapVars, glob>>

\* the caller invokes list_files again, with the parameters of the first invocation
RepeatExecute ==
    /\ Ready
    /\ last.tool = "list_files"
    /\ call' = ListFilesStart(last.params, root)
    /\ UNCHANGED <<root, fs, limVars, last, concVars, mapVars, glob>>

NextTwice ==
    \/ FirstExecute
    \/ ListFilesStatReturns
    \/ ListFilesReadDirReturns
    \/ FirstSettles
    \/ RepeatExecute

SpecTwice == Init /\ [][NextTwice]_vars

(* Invocations of list_files side by side: each is suspended at its awaits,
   where the other's I/O can be answered *)

InitConc ==
    /\ root = <<"/">> \o WS
    /\ fs = TreeFlat
    /\ call = Idle
    /\ limIn = [tool |-> "none", items |-> <<>>]
    /\ limOut = [kind |-> "none"]
    /\ last = Idle
    /\ calls = [slot \in Slots |-> Idle]
    /\ order = <<>>
    /\ map = <<>>
    /\ pruned = NotPruned
    /\ glob = NotTried

\* a caller invokes list_files while the other slot is anywhere in its run
ConcExecute ==
    /\ \E slot \in Slots :
           /\ calls[slot].pc = "idle"
           /\ \E params \in ConcParams :
                  calls' = [calls EXCEPT ![slot] = ListFilesStart(params, root)]
    /\ UNCHANGED <<root, fs, call, limVars, last, order, mapVars, glob>>

\* fs.stat of a slot's target answers
ConcStatReturns ==
    /\ \E slot \in Slots :
           /\ calls[slot].pc = "stat"
           /\ calls' = [calls EXCEPT
                           ![slot] = ListFilesStat(@, Stat(fs, calls[slot].targetDir))]
           /\ order' = Append(order, slot)
    /\ UNCHANGED <<root, fs, call, limVars, last, mapVars, glob>>

\* the outstanding fs.readdir of a slot answers
ConcReadDirReturns ==
    /\ \E slot \in Slots :
           /\ calls[slot].pc = "walk"
           /\ \E outcome \in ReadDirOutcomes(
                                  fs, calls[slot].stack[Len(calls[slot].stack)].currentDir) :
                  calls' = [calls EXCEPT ![slot] = ListFilesReadDir(@, outcome)]
           /\ order' = Append(order, slot)
    /\ UNCHANGED <<root, fs, call, limVars, last, mapVars, glob>>

NextConc == ConcExecute \/ ConcStatReturns \/ ConcReadDirReturns

SpecConc == InitConc /\ [][NextConc]_vars

(* A map that is written and pruned *)

InitMap ==
    /\ root = <<"/">> \o WS
    /\ fs = TreeFlat
    /\ call = Idle
    /\ limIn = [tool |-> "none", items |-> <<>>]
    /\ limOut = [kind |-> "none"]
    /\ last = Idle
    /\ calls = [slot \in Slots |-> Idle]
    /\ order = <<>>
    /\ map = <<>>
    /\ pruned = NotPruned
    /\ glob = NotTried

\* the owner of the map sets an entry
MapSetEntry ==
    /\ \E key \in MapKeys, value \in MapValues : map' = MapSet(map, key, value)
    /\ pruned' = NotPruned
    /\ UNCHANGED <<root, fs, call, limVars, last, concVars, glob>>

\* the owner of the map prunes it
MapPrune ==
    /\ \E maxSize \in MaxSizes :
           /\ map' = PruneMapToMaxSize(map, maxSize)
           /\ pruned' = [done |-> TRUE, before |-> map, maxSize |-> maxSize]
    /\ UNCHANGED <<root, fs, call, limVars, last, concVars, glob>>

NextMap == MapSetEntry \/ MapPrune

SpecMap == InitMap /\ [][NextMap]_vars

(* list_files on a tree that does not change, its I/O always answered *)

NextLive ==
    \/ ListFilesExecute
    \/ ListFilesStatReturns
    \/ ListFilesReadDirReturns

\* weak fairness of ListFilesReadDirReturns, its enabling condition written
\* out: a readdir is outstanding exactly while the walk is suspended
ReadDirFair ==
    \/ []<>(call.pc # "walk")
    \/ []<><<ListFilesReadDirReturns>>_vars

\* fs.stat and fs.readdir settle their promises, and the event loop resumes
\* the invocation that awaits them
SpecLive ==
    /\ Init
    /\ [][NextLive]_vars
    /\ WF_vars(ListFilesStatReturns)
    /\ ReadDirFair

(* list_files while another process removes directories *)

InitRace ==
    /\ root = <<"/">> \o WS
    /\ fs = TreeNested
    /\ call = Idle
    /\ limIn = [tool |-> "none", items |-> <<>>]
    /\ limOut = [kind |-> "none"]
    /\ last = Idle
    /\ calls = [slot \in Slots |-> Idle]
    /\ order = <<>>
    /\ map = <<>>
    /\ pruned = NotPruned
    /\ glob = NotTried

\* another process removes a directory below the listed one, with all it
\* holds, while the walk is suspended at a readdir
SubdirectoryRemoved ==
    /\ call.pc = "walk"
    /\ \E n \in fs :
           /\ n.kind = "dir"
           /\ Len(n.path) > Len(PathSegs(call.targetDir))
           /\ SubSeq(n.path, 1, Len(PathSegs(call.targetDir))) = PathSegs(call.targetDir)
           /\ fs' = {m \in fs : ~(/\ Len(m.path) >= Len(n.path)
                                   /\ SubSeq(m.path, 1, Len(n.path)) = n.path)}
    /\ UNCHANGED <<root, call, limVars, last, concVars, mapVars, glob>>

NextRace ==
    \/ ListFilesExecute
    \/ ListFilesStatReturns
    \/ ListFilesReadDirReturns
    \/ SubdirectoryRemoved

SpecRace == InitRace /\ [][NextRace]_vars

(* matchesPattern on its own: one pattern against one entry of a walk *)

InitGlob ==
    /\ root = <<"/">> \o WS
    /\ fs = TreeFlat
    /\ call = Idle
    /\ limIn = [tool |-> "none", items |-> <<>>]
    /\ limOut = [kind |-> "none"]
    /\ last = Idle
    /\ calls = [slot \in Slots |-> Idle]
    /\ order = <<>>
    /\ map = <<>>
    /\ pruned = NotPruned
    /\ \E pattern \in GlobPatterns, filePath \in GlobPaths :
           glob = [pattern |-> pattern, filePath |-> filePath, outcome |-> "untested"]

\* the walk tests an entry against the pattern: matchesPattern(entryRelative,
\* entry.name, [pattern])
GlobTest ==
    /\ glob.outcome = "untested"
    /\ LET names == Split(glob.filePath, "/")
       IN  glob' = [glob EXCEPT !.outcome =
                       IF MatchesPattern(glob.filePath, names[Len(names)], <<glob.pattern>>)
                       THEN "match" ELSE "nomatch"]
    /\ UNCHANGED <<root, fs, call, limVars, last, concVars, mapVars>>

NextGlob == GlobTest

SpecGlob == InitGlob /\ [][NextGlob]_vars

-----------------------------------------------------------------------------
(* Vocabulary of the properties                                            *)

ListFilesDone == call.tool = "list_files" /\ call.pc = "done"

SearchDone == call.tool = "search" /\ call.pc = "done"

Returned == call.pc = "done" /\ call.result.kind = "ok"

\* whether an absolute path is the directory or lies in the tree below it
InsideTree(abs, dir) ==
    LET a == PathSegs(abs)
        d == PathSegs(dir)
    IN  Len(d) <= Len(a) /\ SubSeq(a, 1, Len(d)) = d

\* the path argument of the call in flight resolves outside the workspace
Escapes == ~InsideTree(PathResolve(root, call.relativePath), root)

\* the names along a relative path ("x/" names x)
Components(rel) == SelectSeq(Split(rel, "/"), LAMBDA seg : seg # <<>>)

HasComponent(rel, name) == \E i \in 1..Len(Components(rel)) : Components(rel)[i] = name

\* the names of a returned path below the directory that was listed
BelowListed(line) ==
    LET listed == NormalizeSegs(Split(call.relativePath, "/"), TRUE, <<>>)
    IN  SubSeq(Components(line), Len(listed) + 1, Len(Components(line)))

RECURSIVE GlobMeans(_, _)
\* the glob language as documented: ** is any sequence, * any sequence without a
\* separator, ? any one character, every other character itself
GlobMeans(pattern, s) ==
    IF pattern = <<>> THEN s = <<>>
    ELSE IF StartsWith(pattern, <<"*", "*">>)
         THEN \E k \in 0..Len(s) :
                  GlobMeans(SubSeq(pattern, 3, Len(pattern)), SubSeq(s, k + 1, Len(s)))
         ELSE IF Head(pattern) = "*"
              THEN \E k \in 0..Len(s) :
                       /\ ~Includes(SubSeq(s, 1, k), <<"/">>)
                       /\ GlobMeans(Tail(pattern), SubSeq(s, k + 1, Len(s)))
              ELSE /\ s # <<>>
                   /\ Head(pattern) = "?" \/ Head(pattern) = Head(s)
                   /\ GlobMeans(Tail(pattern), Tail(s))

\* the workspace-relative paths of the nodes below the workspace root
WorkspacePaths ==
    LET r == PathSegs(root)
    IN  {Join(SubSeq(n.path, Len(r) + 1, Len(n.path)), <<"/">>) :
            n \in {m \in fs : Len(m.path) > Len(r) /\ SubSeq(m.path, 1, Len(r)) = r}}

Basename(rel) == Components(rel)[Len(Components(rel))]

-----------------------------------------------------------------------------
(* Properties                                                              *)

\* C1: whenever the path argument of a list_files or search call resolves outside
\* the workspace root's directory tree, the call fails with "Access denied".
C1_EscapingPathDenied ==
    (call.tool \in {"list_files", "search"} /\ Escapes)
        => (call.pc = "done" /\ call.result = AccessDenied(call.relativePath))

\* C2: every path a successful list_files call returns resolves, against the
\* workspace root, to a location inside the workspace root's directory tree.
C2_ReturnedPathsInsideRoot ==
    (ListFilesDone /\ Returned)
        => \A i \in 1..Len(call.result.text.lines) :
               InsideTree(PathResolve(root, call.result.text.lines[i]), root)

\* C3: a compiled pattern holding ** matches every path that the pattern matches
\* when ** stands for any sequence of characters, separators included ("a/**"
\* matches "a/b/c", "**/f" matches "a/x/f").
C3_DoubleStarCrossesSeparators ==
    (ListFilesDone /\ Returned)
        => \A k \in 1..Len(call.ignore) : \A rel \in WorkspacePaths :
               LET pattern == call.ignore[k]
                   target == IF hasSlash(pattern) THEN rel ELSE Basename(rel)
               IN  (Includes(pattern, <<"*", "*">>) /\ ~EndsWith(pattern, <<"/">>)
                    /\ GlobMeans(pattern, target))
                       => PatternMatches(pattern, rel, Basename(rel))

\* the patterns "X/" of the call's ignore list, as the names X
SlashNames ==
    {SubSeq(call.ignore[k], 1, Len(call.ignore[k]) - 1) :
        k \in {j \in 1..Len(call.ignore) :
                  /\ EndsWith(call.ignore[j], <<"/">>)
                  /\ ~Includes(SubSeq(call.ignore[j], 1, Len(call.ignore[j]) - 1), <<"/">>)}}

\* the name-only patterns X of the call's ignore list
PlainNames ==
    {call.ignore[k] : k \in {j \in 1..Len(call.ignore) : ~Includes(call.ignore[j], <<"/">>)}}

\* the directories a returned path lies under
DirComponents(line) == SubSeq(Components(line), 1, Len(Components(line)) - 1)

\* C4: with an ignore pattern "X/", list_files returns no path that is X or has X
\* as one of its directory components.
C4_TrailingSlashExcludesSubtree ==
    (ListFilesDone /\ Returned)
        => \A name \in SlashNames : \A i \in 1..Len(call.result.text.lines) :
               LET line == call.result.text.lines[i]
               IN  /\ Components(line) # <<name>>
                   /\ \A j \in 1..Len(DirComponents(line)) : DirComponents(line)[j] # name

\* C5 as claimed: with a name-only ignore pattern X, list_files returns no path
\* with a component named X, whatever directory the listing starts at.
C5_NameNeverReturnedAnywhere ==
    (ListFilesDone /\ Returned)
        => \A name \in PlainNames : \A i \in 1..Len(call.result.text.lines) :
               ~HasComponent(call.result.text.lines[i], name)

\* C5 as amended: with a name-only ignore pattern X, list_files returns no path
\* that has a component named X below the directory that was listed.
C5_NameNeverReturnedBelowListed ==
    (ListFilesDone /\ Returned)
        => \A name \in PlainNames : \A i \in 1..Len(call.result.text.lines) :
               LET below == BelowListed(call.result.text.lines[i])
               IN  \A j \in 1..Len(below) : below[j] # name

\* C5's case: a listing from the workspace root with the ignore pattern x has
\* walked a tree holding a/x and returned entries
C5_Witness ==
    /\ ListFilesDone /\ Returned
    /\ call.relativePath = Dot
    /\ call.ignore = <<NX>>
    /\ call.recursive
    /\ \E rel \in WorkspacePaths : HasComponent(rel, NX) /\ Len(Components(rel)) >= 2
    /\ call.result.text.lines # <<>>

\* the items the output limiter was given
LimitItems == IF limIn.tool = "search" THEN SearchLines(limIn.items) ELSE limIn.items

LimitCeiling == IF limIn.tool = "search" THEN MAX_LINES ELSE MAX_FILES

\* C6: the output is truncated exactly when the items outnumber the ceiling; then
\* it holds the first `ceiling` items and a note of N more with ceiling + N the
\* total, and otherwise it holds every item and no note.
C6_TruncationExact ==
    limOut.kind = "ok"
        => LET text == limOut.text
               total == Len(LimitItems)
           IN  /\ text.note <=> (total > LimitCeiling)
               /\ text.note
                    => /\ text.lines = SubSeq(LimitItems, 1, LimitCeiling)
                       /\ Len(text.lines) = LimitCeiling
                       /\ LimitCeiling + text.more = total
               /\ ~text.note
                    => /\ text.lines = LimitItems
                       /\ text.placeholder # "" <=> total = 0

\* C6's case: each limiter has cut an output one item past its ceiling
C6_Witness ==
    /\ limOut.kind = "ok"
    /\ Len(LimitItems) = LimitCeiling + 1
    /\ limOut.text.note
    /\ limOut.text.more = 1

\* C7: the text of a successful call is never the empty string: a listing with no
\* entries reads "(empty directory)", a search whose grep exits 0 without a
\* non-empty line reads "No matches found.".
C7_TextNeverEmpty ==
    Returned
        => /\ ~TextIsEmpty(call.result.text)
           /\ (call.tool = "list_files" /\ call.files = <<>>)
                => call.result.text.placeholder = "(empty directory)"
           /\ (call.tool = "search" /\ call.exec.code = 0 /\ SearchLines(call.exec.stdout) = <<>>)
                => call.result.text.placeholder = "No matches found."

\* C7's case: a listing that found no entry has returned
C7_Witness == ListFilesDone /\ Returned /\ call.files = <<>>

\* whether an error message holds a text
MessageHolds(message, text) == text = "" \/ \E i \in 1..Len(message) : message[i] = text

\* C8: a grep exit code of 1 gives the result "No matches found." and no error;
\* an exit code of 2 raises a caller-input error whose message holds grep's stderr.
C8_ExitCodesClassified ==
    SearchDone
        => /\ call.exec.code = 1
                => /\ call.result.kind = "ok"
                   /\ call.result.text.placeholder = "No matches found."
                   /\ call.result.text.lines = <<>>
           /\ call.exec.code = 2
                => /\ call.result.kind = "error"
                   /\ call.result.class = "ToolInputError"
                   /\ MessageHolds(call.result.message, call.exec.stderr)

\* C8's case: grep has exited with code 2 and a diagnostic on stderr
C8_Witness == SearchDone /\ call.exec.code = 2 /\ call.exec.stderr # ""

\* C9: list_files raises "Access denied" for a path that escapes the root,
\* "Directory not found" for a missing path inside it and "is not a directory" for
\* a file inside it, and returns no result in any of these cases.
C9_FailuresDistinguished ==
    ListFilesDone
        => LET inside == InsideTree(PathResolve(root, call.relativePath), root)
               stats == Stat(fs, PathResolve(root, call.relativePath))
           IN  /\ ~inside => call.result = AccessDenied(call.relativePath)
               /\ (inside /\ stats = "ENOENT")
                    => call.result = ToolInputError(<<"Directory not found: ", call.relativePath>>)
               /\ (inside /\ stats = "file")
                    => call.result = ToolInputError(<<call.relativePath, " is not a directory.">>)

\* the options of grep that take the next argument as their value
ValueFlags == {FlagPattern, FlagInclude, FlagExclude, FlagExcludeDir}

RECURSIVE GrepReadsFrom(_, _, _)
\* How grep's option parser reads each argument: the value of the option before
\* it, an option, or an operand (everything after a bare "--" is an operand)
GrepReadsFrom(argv, expectsValue, ended) ==
    IF argv = <<>> THEN <<>>
    ELSE LET arg == Head(argv)
         IN  IF expectsValue THEN <<"value">> \o GrepReadsFrom(Tail(argv), FALSE, ended)
             ELSE IF ended THEN <<"operand">> \o GrepReadsFrom(Tail(argv), FALSE, TRUE)
             ELSE IF arg = <<"-", "-">> THEN <<"option">> \o GrepReadsFrom(Tail(argv), FALSE, TRUE)
             ELSE IF Len(arg) >= 2 /\ arg[1] = "-"
                  THEN <<"option">> \o GrepReadsFrom(Tail(argv), arg \in ValueFlags, FALSE)
                  ELSE <<"operand">> \o GrepReadsFrom(Tail(argv), FALSE, FALSE)

GrepReads(argv) == GrepReadsFrom(argv, FALSE, FALSE)

SearchSpawned == call.tool = "search" /\ call.spawned # <<>>

\* C10 as claimed: the pattern string occurs in the argument vector exactly once,
\* right after "-e".
C10_PatternOccursOnce ==
    SearchSpawned
        => LET argv == call.spawned[1].args
               at == {i \in 1..Len(argv) : argv[i] = call.params["pattern"]}
           IN  /\ Cardinality(at) = 1
               /\ \A i \in at : i > 1 /\ argv[i - 1] = FlagPattern

\* C10 as amended: the pattern is put into the argument vector once, as the
\* element right after "-e" and right before the final path; grep reads "-e" as
\* an option and the pattern as its value, and no shell is involved.
C10_PatternIsValueOfE ==
    SearchSpawned
        => LET argv == call.spawned[1].args
               n == Len(argv)
               include == ReadParam(call.params, "include", <<>>)
               exclude == ReadParam(call.params, "exclude", DefaultIgnore)
               fixed == IF Has(call.params, "caseSensitive") /\ call.params["caseSensitive"]
                        THEN 2 ELSE 3
           IN  /\ Len(call.spawned) = 1
               /\ ~call.spawned[1].shell
               /\ n = fixed + 2 * Len(include) + 4 * Len(exclude) + 3
               /\ argv[n - 1] = call.params["pattern"]
               /\ argv[n - 2] = FlagPattern
               /\ GrepReads(argv)[n - 2] = "option"
               /\ GrepReads(argv)[n - 1] = "value"

\* C10's case: grep was started for the pattern "-v", with include entries
C10_Witness ==
    /\ SearchSpawned
    /\ call.params["pattern"] = <<"-", "v">>
    /\ Has(call.params, "include") /\ call.params["include"] # <<>>

-----------------------------------------------------------------------------
(* Case sensitivity of search                                              *)

\* grep is told to ignore case: -i is in the argument vector, read as an option
CaseFlagPassed(argv) ==
    \E i \in 1..Len(argv) : argv[i] = FlagI /\ GrepReads(argv)[i] = "option"

\* the caller passed caseSensitive as the boolean true
ExplicitlyCaseSensitive(params) == Has(params, "caseSensitive") /\ params["caseSensitive"] = TRUE

\* the letters of the lines grep is tried on, folded to lower case
FoldCase(s) == [i \in 1..Len(s) |-> IF s[i] = "H" THEN "h" ELSE s[i]]

\* whether grep started with argv selects a line, for a pattern that is one
\* letter: the line contains it, after folding both when case is ignored
GrepSelects(argv, line) ==
    LET pattern == argv[Len(argv) - 1]
    IN  IF CaseFlagPassed(argv)
        THEN Includes(FoldCase(line), FoldCase(pattern))
        ELSE Includes(line, pattern)

\* C11: caseSensitive defaults to true: when the caller omits it, no -i is
\* passed to grep.
C11_OmittedIsCaseSensitive ==
    (SearchSpawned /\ ~Has(call.params, "caseSensitive"))
        => ~CaseFlagPassed(call.spawned[1].args)

-----------------------------------------------------------------------------
(* Order of the listing                                                    *)

RECURSIVE RunAlone(_, _)
\* an invocation of list_files run to its end on a tree with nothing else in
\* flight, every readdir answering in one fixed order
RunAlone(c, tree) ==
    IF c.pc = "done" THEN c
    ELSE IF c.pc = "stat" THEN RunAlone(ListFilesStat(c, Stat(tree, c.targetDir)), tree)
    ELSE LET outcomes == ReadDirOutcomes(tree, c.stack[Len(c.stack)].currentDir)
         IN  RunAlone(ListFilesReadDir(c, CHOOSE outcome \in outcomes : TRUE), tree)

\* what list_files gives for the parameters when it runs alone
Alone(tree, rootDir, params) == RunAlone(ListFilesStart(params, rootDir), tree).result

\* no line is smaller than a line before it
Ascending(lines) == \A i, j \in 1..Len(lines) : i < j => ~StrLess(lines[j], lines[i])

\* the names of a readdir answer, in the order of the answer
Names(entries) == [i \in 1..Len(entries) |-> entries[i].name]

\* C13: the output of list_files is sorted and is the same for every order in
\* which the directories are enumerated: whatever order the readdirs answered
\* in, the result is the one of the run with the fixed order.
C13_OutputIndependentOfEnumeration ==
    (ListFilesDone /\ Returned)
        => /\ Ascending(call.result.text.lines)
           /\ call.result = Alone(fs, root, call.params)

\* C13's case: a listing returned after a readdir of several entries answered
\* in descending order of the names
C13_Witness ==
    /\ ListFilesDone /\ Returned
    /\ Len(call.result.text.lines) >= 3
    /\ \E k \in 1..Len(call.answers) :
           /\ Len(call.answers[k]) >= 2
           /\ \A i, j \in 1..Len(call.answers[k]) :
                  i < j => StrLess(call.answers[k][j].name, call.answers[k][i].name)

-----------------------------------------------------------------------------
(* Invocations one after the other                                         *)

\* the invocation in flight repeats the one that settled before it
Repeated == call.tool = "list_files" /\ last.tool = "list_files" /\ call.params = last.params

\* C14: list_files called twice with the same parameters, the filesystem not
\* changed in between, gives the same outcome both times, and the second
\* invocation starts from an empty accumulator.
C14_RepeatedCallSameOutput ==
    Repeated
        => /\ call.pc = "stat" => call.files = <<>>
           /\ call.pc = "done" => call.result = last.result

\* C14's case: the second invocation returned a listing of several entries
C14_Witness ==
    /\ Repeated
    /\ ListFilesDone /\ Returned
    /\ Len(call.result.text.lines) >= 2
    /\ call.result = last.result

-----------------------------------------------------------------------------
(* Invocations side by side                                                *)

\* the answers to the two slots' I/O alternated: one of slot 2 came between
\* two of slot 1, and one of slot 1 between two of slot 2
Interleaved ==
    \E i, j, k, l \in 1..Len(order) :
        i < j /\ j < k /\ k < l /\ order[i] # order[j] /\ order[j] # order[k] /\ order[k] # order[l]

\* C15: two invocations of list_files running side by side, their I/O answered
\* in any interleaving, do not interfere: each ends with the outcome it has
\* when it runs alone.
C15_ConcurrentCallsIndependent ==
    \A slot \in Slots :
        calls[slot].pc = "done"
            => calls[slot].result = Alone(fs, root, calls[slot].params)

\* C15's case: both invocations returned listings after their I/O alternated
C15_Witness ==
    /\ \A slot \in Slots :
           /\ calls[slot].pc = "done"
           /\ calls[slot].result.kind = "ok"
           /\ Len(calls[slot].result.text.lines) >= 2
    /\ calls[1].params # calls[2].params
    /\ Interleaved

-----------------------------------------------------------------------------
(* Listing a subdirectory                                                  *)

\* the nodes of the filesystem below a directory, the directory itself left out
NodesBelow(tree, dir) ==
    {n \in tree : /\ Len(n.path) > Len(PathSegs(dir))
                  /\ SubSeq(n.path, 1, Len(PathSegs(dir))) = PathSegs(dir)}

\* how a node below the listed directory is written in a listing of `requested`:
\* the requested path joined with the node's path below the directory, a
\* directory with "/" after it
EntryFor(n, requested, dir) ==
    PathJoin(requested, Join(SubSeq(n.path, Len(PathSegs(dir)) + 1, Len(n.path)), <<"/">>))
        \o (IF n.kind = "dir" THEN <<"/">> ELSE <<>>)

-----------------------------------------------------------------------------
(* Pruning a map                                                           *)

\* pruneMapToMaxSize(map, n) has just returned for a whole number n
PrunedToInteger == pruned.done /\ pruned.maxSize.den = 1

Min(a, b) == IF a <= b THEN a ELSE b

\* C17: after pruneMapToMaxSize(map, n) for an integer n the size of the map
\* is min(previous size, max(0, n)): n <= 0 empties the map, n at or above the
\* size leaves the size as it was.
C17_SizeAfterPrune ==
    PrunedToInteger
        => LET n == pruned.maxSize.num
               previous == Len(pruned.before)
           IN  /\ Len(map) = Min(previous, IF n > 0 THEN n ELSE 0)
               /\ n <= 0 => map = <<>>
               /\ n >= previous => Len(map) = previous

\* C17's case: a map of four entries was pruned to two
C17_Witness ==
    /\ PrunedToInteger
    /\ Len(pruned.before) = Cardinality(MapKeys)
    /\ pruned.maxSize.num = Len(pruned.before) - 2
    /\ Len(map) = Len(pruned.before) - 2

\* C18: pruneMapToMaxSize removes the oldest entries: what is left is the end
\* of the map as it was, the entries in their order with their values; a map
\* whose size does not exceed the limit is left as it was.
C18_OldestRemovedFirst ==
    PrunedToInteger
        => LET before == pruned.before
           IN  /\ map = SubSeq(before, Len(before) - Len(map) + 1, Len(before))
               /\ Len(before) <= pruned.maxSize.num => map = before

\* C18's case: pruning removed the oldest entry, and only it, of a map of three
\* or more entries whose two oldest have different values
C18_Witness ==
    /\ PrunedToInteger
    /\ Len(pruned.before) >= 3
    /\ Len(map) = Len(pruned.before) - 1
    /\ pruned.before[1].value # pruned.before[2].value
    /\ map[1] = pruned.before[2]

-----------------------------------------------------------------------------
(* What the tools touch                                                    *)

\* the relative path the walk gives to the directory `segs` below the listed one
WalkRelative(segs) ==
    PathJoin(IF call.relativePath = Dot THEN <<>> ELSE call.relativePath, Join(segs, <<"/">>))

\* the directory, or a directory above it and below the listed one, is matched
\* by the ignore matcher of the call in flight
UnderIgnored(dir) ==
    LET below == SubSeq(PathSegs(dir), Len(PathSegs(call.targetDir)) + 1, Len(PathSegs(dir)))
    IN  \E k \in 1..Len(below) :
            MatchesPattern(WalkRelative(SubSeq(below, 1, k)), below[k], call.ignore)

\* C19: during a walk no readdir is made on a directory the ignore matcher
\* matches, nor on a directory below one: every directory read is the listed
\* one or lies below it with no matched directory on the way.
C19_IgnoredDirectoriesNotRead ==
    call.tool = "list_files"
        => \A i \in 1..Len(call.reads) :
               /\ InsideTree(call.reads[i], call.targetDir)
               /\ ~UnderIgnored(call.reads[i])

\* C19's case: a recursive walk ended in a tree that holds a directory the
\* ignore matcher matches, with a file below it, and other directories were read
C19_Witness ==
    /\ ListFilesDone /\ Returned
    /\ call.recursive
    /\ Len(call.reads) >= 2
    /\ \E n \in NodesBelow(fs, call.targetDir) :
           /\ n.kind = "dir"
           /\ UnderIgnored(<<"/">> \o Join(n.path, <<"/">>))
           /\ \E m \in NodesBelow(fs, <<"/">> \o Join(n.path, <<"/">>)) : m.kind = "file"

\* the call in flight was rejected by the path guard
Rejected ==
    /\ call.tool \in {"list_files", "search"}
    /\ call.result = AccessDenied(call.relativePath)

\* C20: the path guard comes before every other effect: a rejected list_files
\* has called neither fs.stat nor fs.readdir, a rejected search has started no
\* process, and a call that has done any of these has passed the guard.
C20_GuardBeforeEffects ==
    /\ (Rejected /\ call.tool = "list_files") => (call.stats = <<>> /\ call.reads = <<>>)
    /\ (Rejected /\ call.tool = "search") => call.spawned = <<>>
    /\ (call.tool = "list_files" /\ (call.stats # <<>> \/ call.reads # <<>>))
           => (WithinRoot(call.targetDir, root) /\ ~Rejected)
    /\ (call.tool = "search" /\ call.spawned # <<>>)
           => (WithinRoot(call.targetDir, root) /\ ~Rejected)
    /\ (call.tool \in {"list_files", "search"} /\ ~WithinRoot(call.targetDir, root))
           => Rejected

\* C20's case: a search for a path outside the root was rejected
C20_Witness ==
    /\ SearchDone
    /\ Rejected
    /\ call.relativePath = <<".", ".">>
    /\ call.spawned = <<>>

-----------------------------------------------------------------------------
(* The glob matcher                                                        *)

\* matchesPattern has answered for the pattern and the path
GlobTested == glob.outcome \in {"match", "nomatch"}

\* the name of the entry a path leads to
GlobBasename == Split(glob.filePath, "/")[Len(Split(glob.filePath, "/"))]

\* a separator stands somewhere before the final character of the pattern
SeparatorBeforeFinal(pattern) == \E i \in 1..(Len(pattern) - 1) : pattern[i] = "/"

\* C21: a pattern with a separator before its final character, one that also
\* ends with "/" included, is matched against the full relative path, every
\* other pattern against the basename.
C21_TargetBySeparatorPosition ==
    GlobTested
        => LET target == IF SeparatorBeforeFinal(glob.pattern)
                         THEN glob.filePath ELSE GlobBasename
           IN  (glob.outcome = "match") <=> RegExpTest(regexString(glob.pattern), target)

\* C22: without a trailing slash (and without **), a pattern matches its target
\* exactly when the glob does: * is a run of non-separators, ? is any one
\* character, every other character is itself, and the whole target is matched.
C22_GlobCharactersMatchAsDocumented ==
    (GlobTested /\ ~EndsWith(glob.pattern, <<"/">>) /\ ~Includes(glob.pattern, <<"*", "*">>))
        => LET target == IF Includes(glob.pattern, <<"/">>)
                         THEN glob.filePath ELSE GlobBasename
           IN  (glob.outcome = "match") <=> GlobMeans(glob.pattern, target)

-----------------------------------------------------------------------------
(* The argument vector of grep                                             *)

RECURSIVE IncludePairs(_)
\* "--include v" for every include entry, in the order given
IncludePairs(include) ==
    IF include = <<>> THEN <<>>
    ELSE <<FlagInclude, Head(include)>> \o IncludePairs(Tail(include))

RECURSIVE ExcludePairs(_)
\* "--exclude v --exclude-dir v" for every exclude entry, in the order given
ExcludePairs(exclude) ==
    IF exclude = <<>> THEN <<>>
    ELSE <<FlagExclude, Head(exclude), FlagExcludeDir, Head(exclude)>>
         \o ExcludePairs(Tail(exclude))

\* C23: grep is started once, in the workspace root, with exactly: -rIn, -i
\* unless caseSensitive is true, -E, the include pairs, the exclude pairs, -e and
\* the pattern, and the caller's path last.
C23_ArgumentVectorExact ==
    SearchSpawned
        => /\ Len(call.spawned) = 1
           /\ call.spawned[1].file = "grep"
           /\ call.spawned[1].cwd = root
           /\ call.spawned[1].args =
                  <<FlagRIn>>
                  \o (IF ExplicitlyCaseSensitive(call.params) THEN <<>> ELSE <<FlagI>>)
                  \o <<FlagE>>
                  \o IncludePairs(ReadParam(call.params, "include", <<>>))
                  \o ExcludePairs(ReadParam(call.params, "exclude", DefaultIgnore))
                  \o <<FlagPattern, call.params["pattern"]>>
                  \o <<ReadParam(call.params, "path", Dot)>>

\* C23's case: grep was started for a call with two include entries, two
\* exclude entries and a path
C23_Witness ==
    /\ SearchSpawned
    /\ Has(call.params, "include") /\ Len(call.params["include"]) = 2
    /\ Has(call.params, "exclude") /\ Len(call.params["exclude"]) = 2
    /\ Has(call.params, "path") /\ call.params["path"] = NA

-----------------------------------------------------------------------------
(* Failures of the search process                                          *)

\* grep ended in another way than with exit code 0, 1 or 2
OtherEnding == SearchDone /\ call.spawned # <<>> /\ call.exec.code \notin {0, 1, 2}

\* C24: a search starts grep once and never again; when grep ends in another
\* way than with exit code 0, 1 or 2, the call fails with the failure of
\* execFile as it was thrown, and returns no lines.
C24_OtherFailuresPropagated ==
    /\ call.tool = "search" => Len(call.spawned) <= 1
    /\ (SearchDone /\ ~Rejected) => Len(call.spawned) = 1
    /\ OtherEnding
           => /\ call.result.kind = "error"
              /\ call.result = ExecError(call.exec)
              /\ call.result.class # "ToolInputError"

\* C24's case: grep had printed a line when its output passed the buffer limit
C24_Witness ==
    /\ OtherEnding
    /\ call.exec.code = -1
    /\ call.exec.stdout # <<>>
    /\ call.result.kind = "error"

-----------------------------------------------------------------------------
(* What a listing holds                                                    *)

\* the absolute path of a node
AbsoluteOf(n) == <<"/">> \o Join(n.path, <<"/">>)

\* the lines of the result, as a set
Lines == {call.result.text.lines[i] : i \in 1..Len(call.result.text.lines)}

\* the entries right in the listed directory
DirectEntries ==
    {n \in NodesBelow(fs, call.targetDir) : Len(n.path) = Len(PathSegs(call.targetDir)) + 1}

C26_RecursiveListsFiles ==
    (ListFilesDone /\ Returned /\ call.recursive)
        => LET files == {n \in NodesBelow(fs, call.targetDir) :
                            n.kind = "file" /\ ~UnderIgnored(AbsoluteOf(n))}
           IN  /\ Lines = {EntryFor(n, call.relativePath, call.targetDir) : n \in files}
               /\ Len(call.result.text.lines) = Cardinality(Lines)
               /\ \A line \in Lines : ~EndsWith(line, <<"/">>)
               /\ files = {} => call.result.text.placeholder = "(empty directory)"

\* C26's case: a recursive listing of a tree that holds directories and no file
C26_Witness ==
    /\ ListFilesDone /\ Returned /\ call.recursive
    /\ \E n \in NodesBelow(fs, call.targetDir) : Len(n.path) > Len(PathSegs(call.targetDir)) + 1
    /\ \A n \in NodesBelow(fs, call.targetDir) : n.kind = "dir"
    /\ call.result.text.placeholder = "(empty directory)"

-----------------------------------------------------------------------------
(* A tree that changes during the walk                                     *)

\* the error for a starting path that does not exist
DirectoryNotFound == ToolInputError(<<"Directory not found: ", call.relativePath>>)

\* C27: "Directory not found" is raised only for a starting path that does not
\* exist: a call whose starting path was a directory when fs.stat checked it
\* (so that its walk began) never ends with it, whatever is removed meanwhile.
C27_NotFoundOnlyForStartingPath ==
    (ListFilesDone /\ call.reads # <<>>) => call.result # DirectoryNotFound

-----------------------------------------------------------------------------
(* Strings of the caller in the argument vector                            *)

\* the positions of the argument vector whose string comes from the caller:
\* the include and exclude values, the pattern and the path
CallerPositions(argv) ==
    {i \in 2..Len(argv) : argv[i - 1] \in ValueFlags /\ GrepReads(argv)[i - 1] = "option"}
    \cup {Len(argv)}

\* C28: no string of the caller can be read as an option by grep: each one
\* either comes right after the flag whose value it is, or does not begin
\* with "-".
C28_CallerStringsNeverOptions ==
    SearchSpawned
        => LET argv == call.spawned[1].args
           IN  \A i \in CallerPositions(argv) :
                   \/ (i > 1 /\ argv[i - 1] \in ValueFlags /\ GrepReads(argv)[i] = "value")
                   \/ (argv[i] # <<>> /\ argv[i][1] # "-")

\* C29: the path guard rejects nothing inside the workspace: whatever root the
\* tool was made with, a path that resolves to the root or below it is never
\* answered with "Access denied".
C29_InsideNeverDenied ==
    (call.tool \in {"list_files", "search"}
     /\ InsideTree(PathResolve(root, call.relativePath), root))
        => ~Rejected

-----------------------------------------------------------------------------
(* Termination and order of the walk                                       *)

\* list_files is suspended at an await
ListFilesInFlight == call.tool = "list_files" /\ call.pc \in {"stat", "walk"}

\* the frames of walk whose readdir has not answered yet
Awaiting == {i \in 1..Len(call.stack) : call.stack[i].awaiting}

\* One directory at a time: no directory is read twice; at most one readdir is
\* outstanding, the one of the innermost walk, every walk around it being
\* stopped in its loop at the entry that leads to the next one; a readdir is
\* called only after every earlier one has answered.
OneDirectoryAtATime ==
    call.tool = "list_files"
        => /\ \A i, j \in 1..Len(call.reads) : i # j => call.reads[i] # call.reads[j]
           /\ Awaiting \subseteq {Len(call.stack)}
           /\ call.pc = "walk" => Awaiting = {Len(call.stack)}
           /\ \A i \in 1..(Len(call.stack) - 1) :
                  InsideTree(call.stack[i + 1].currentDir, call.stack[i].currentDir)
           /\ Len(call.reads) - Len(call.answers) \in {0, 1}
           /\ call.pc = "walk" => Len(call.reads) = Len(call.answers) + 1

\* C30: on a finite tree that does not change, every invocation of list_files
\* ends with a result or an error, and on the way it reads each directory at
\* most once and one directory at a time.
C30_WalkTerminatesSequentially ==
    /\ []OneDirectoryAtATime
    /\ ListFilesInFlight ~> (ListFilesDone /\ call.result.kind \in {"ok", "error"})

\* C30's case: a walk of a tree three directories deep has ended with a listing
C30_Witness ==
    /\ ListFilesDone /\ Returned
    /\ Len(call.reads) >= 4
    /\ call.result.text.lines # <<>>

====
